---- MODULE Spec2Model ----
(***************************************************************************)
(* Model of core/src/ffi.rs: the helpers between application code and the *)
(* DPDK bindings.                                                          *)
(*   - Text Bridge:   AsStr (as_str) and ToCString (into_cstring)          *)
(*   - Result Bridge: ToResult (into_result) for *mut T, *const T, c_int   *)
(*   - ABI factories: RteEth*::default()                                   *)
(* Every function of the file is pure; the state records the last call of  *)
(* each component and the counters of the collaborators it invokes (the    *)
(* caller's error constructor, the warn! log sink).                        *)
(***************************************************************************)
EXTENDS Integers, Sequences, FiniteSets, TLC

VARIABLES
    rlast,      \* Result Bridge: the last into_result call (op, raw, f, out)
    rprev,      \* Result Bridge: the into_result call before it
    convs,      \* Result Bridge: number of into_result calls made
    failures,   \* Result Bridge: number of calls that returned Err
    ctorCalls,  \* number of invocations of the caller-supplied constructor f
    tlast,      \* Text Bridge: the last as_str / into_cstring call
    cstr,       \* the CString the caller holds from the last into_cstring
    invalidCalls, \* as_str calls whose bytes before the NUL were not UTF-8
    logCalls,   \* number of warn! calls
    hdr,        \* array lengths declared by the driver header of the build
    alast,      \* ABI factories: the last factory call (name, value)
    aprev       \* ABI factories: the factory call before it

vars == << rlast, rprev, convs, failures, ctorCalls, tlast, cstr,
           invalidCalls, logCalls, hdr, alast, aprev >>

rvars == << rlast, rprev, convs, failures, ctorCalls >>
tvars == << tlast, cstr, invalidCalls, logCalls >>
avars == << alast, aprev >>

\* No call made yet.
None == [op |-> "none", out |-> [tag |-> "none"]]

(***************************************************************************)
(* Bounds of the model.                                                    *)
(***************************************************************************)
MaxCalls == 3       \* into_result calls, and as_str calls that log, per run
MaxLen == 3         \* longest text and longest driver C string
MaxArr == 2         \* longest fixed-size byte array
MaxTail == 1        \* mapped bytes that follow a byte array in memory
MaxCntrs == 16      \* largest RTE_ETHDEV_QUEUE_STAT_CNTRS tried

(***************************************************************************)
(* Result Bridge (ffi.rs 93-148).                                          *)
(***************************************************************************)
NULL == 0

\* Addresses a driver call can return: null and two mapped addresses.
Addrs == {NULL, 4096, 8192}

\* std::os::raw::c_int is 32 bits wide (two's complement).
C_INT_MAX == 2147483647
C_INT_MIN == -C_INT_MAX - 1
CInts == {C_INT_MIN, -42, -1, 0, 1, 42, 65536, C_INT_MAX}

\* A u32 is kept as its two 16-bit halves, since 2^32 - 1 exceeds the
\* integers TLC computes with: the value is hi * 2^16 + lo.
HalfWord == 65536
U32Value(u) == u.hi * HalfWord + u.lo

\* The caller's closures f: FnOnce(Self) -> E.  Each builds a concrete error
\* from the raw value it is handed.
Ctors == {"DpdkError", "OtherError"}
CallCtor(f, raw) == [ctor |-> f, raw |-> raw]

\* E -> anyhow::Error (`.into()`): the unified error wraps the concrete one.
IntoAnyhow(e) == [anyhow |-> e]

\* `self as u32`: the same 32 bits read as unsigned (v mod 2^32).
AsU32(v) == [hi |-> (v \div HalfWord) % HalfWord, lo |-> v % HalfWord]

\* A conversion's outcome: the Result, and the values f was invoked with.
Ok(v) == [tag |-> "Ok", val |-> v, ctorArgs |-> << >>]
Err(f, raw) == [tag |-> "Err", err |-> IntoAnyhow(CallCtor(f, raw)),
                ctorArgs |-> << raw >>]

\* NonNull::new(p): None for null, Some(p) otherwise.
NonNullNew(p) == IF p = NULL THEN [some |-> FALSE] ELSE [some |-> TRUE, ptr |-> p]

\* Faulty variant: ok_or(f(self)) builds the error eagerly, before the null test.
into_result_mut_eager(p, f) ==
    IF NonNullNew(p).some
    THEN [tag |-> "Ok", val |-> NonNullNew(p).ptr, ctorArgs |-> << p >>]
    ELSE Err(f, p)

\* impl<T> ToResult for *mut T: NonNull::new(self).ok_or_else(|| f(self).into())
into_result_mut(p, f) ==
    LET nn == NonNullNew(p)
    IN  IF nn.some THEN Ok(nn.ptr) ELSE Err(f, p)

\* Faulty variant: the null test inverted.
into_result_const_inverted(p, f) ==
    IF p # NULL THEN Err(f, p) ELSE Ok(p)

\* impl<T> ToResult for *const T
into_result_const(p, f) ==
    IF p = NULL THEN Err(f, p) ELSE Ok(p)

\* Faulty variant: `self > 0`, zero treated as an error code.
into_result_int_strict(v, f) ==
    IF v > 0 THEN Ok(AsU32(v)) ELSE Err(f, v)

\* impl ToResult for raw::c_int
into_result_int(v, f) ==
    IF v >= 0 THEN Ok(AsU32(v)) ELSE Err(f, v)

\* The bookkeeping of one into_result call.
Converted(op, raw, f, out) ==
    /\ rlast' = [op |-> op, raw |-> raw, f |-> f, out |-> out]
    /\ rprev' = rlast
    /\ convs' = convs + 1
    /\ failures' = failures + (IF out.tag = "Err" THEN 1 ELSE 0)
    /\ ctorCalls' = ctorCalls + Len(out.ctorArgs)
    /\ UNCHANGED << tvars, hdr, avars >>

IntoResultMut ==
    /\ convs < MaxCalls
    /\ \E p \in Addrs, f \in Ctors : Converted("mut", p, f, into_result_mut(p, f))

IntoResultConst ==
    /\ convs < MaxCalls
    /\ \E p \in Addrs, f \in Ctors : Converted("const", p, f, into_result_const(p, f))

IntoResultInt ==
    /\ convs < MaxCalls
    /\ \E v \in CInts, f \in Ctors : Converted("int", v, f, into_result_int(v, f))

ResultNext == IntoResultMut \/ IntoResultConst \/ IntoResultInt

(***************************************************************************)
(* Text Bridge (ffi.rs 35-81).                                             *)
(***************************************************************************)
NUL == 0

\* Byte values tried: NUL, 'A', and the two bytes of U+00E9 (C3 A9), each of
\* which is invalid on its own.
Bytes == {NUL, 65, 195, 169}

RECURSIVE SeqsUpTo(_, _)
SeqsUpTo(S, n) ==
    IF n = 0 THEN {<< >>}
    ELSE LET shorter == SeqsUpTo(S, n - 1)
         IN  shorter \cup {Append(s, b) : s \in {t \in shorter : Len(t) = n - 1}, b \in S}

Range(s) == {s[i] : i \in 1..Len(s)}

\* The first n elements of s (all of s when it is shorter).
Take(s, n) == [i \in 1..(IF n < Len(s) THEN n ELSE Len(s)) |-> s[i]]

\* core::str::validations::utf8_char_width
utf8_char_width(b) ==
    IF b < 128 THEN 1
    ELSE IF b >= 194 /\ b <= 223 THEN 2
    ELSE IF b >= 224 /\ b <= 239 THEN 3
    ELSE IF b >= 240 /\ b <= 244 THEN 4
    ELSE 0

IsCont(b) == b >= 128 /\ b <= 191

\* The byte at 1-based position i of s, or FF (never valid) past its end.
ByteAt(s, i) == IF i <= Len(s) THEN s[i] ELSE 255

\* Faulty variant: a validator that accepts ASCII only.
RECURSIVE ValidUtf8AsciiOnly(_, _)
ValidUtf8AsciiOnly(s, i) ==
    IF i > Len(s) THEN TRUE
    ELSE s[i] < 128 /\ ValidUtf8AsciiOnly(s, i + 1)

\* core::str::from_utf8 (run_utf8_validation) from position i on, as called
\* by CStr::to_str.
RECURSIVE ValidUtf8From(_, _)
ValidUtf8From(s, i) ==
    IF i > Len(s) THEN TRUE
    ELSE LET first == s[i]
             w == utf8_char_width(first)
             b2 == ByteAt(s, i + 1)
         IN  CASE w = 1 -> ValidUtf8From(s, i + 1)
               [] w = 2 -> i + 1 <= Len(s) /\ IsCont(b2) /\ ValidUtf8From(s, i + 2)
               [] w = 3 ->
                    /\ i + 2 <= Len(s)
                    /\ \/ first = 224 /\ b2 >= 160 /\ b2 <= 191
                       \/ first >= 225 /\ first <= 236 /\ IsCont(b2)
                       \/ first = 237 /\ b2 >= 128 /\ b2 <= 159
                       \/ first >= 238 /\ first <= 239 /\ IsCont(b2)
                    /\ IsCont(s[i + 2])
                    /\ ValidUtf8From(s, i + 3)
               [] w = 4 ->
                    /\ i + 3 <= Len(s)
                    /\ \/ first = 240 /\ b2 >= 144 /\ b2 <= 191
                       \/ first >= 241 /\ first <= 243 /\ IsCont(b2)
                       \/ first = 244 /\ b2 >= 128 /\ b2 <= 143
                    /\ IsCont(s[i + 2])
                    /\ IsCont(s[i + 3])
                    /\ ValidUtf8From(s, i + 4)
               [] OTHER -> FALSE

\* Faulty variant: only ASCII accepted as text.
to_str_ascii_only(bytes) ==
    IF ValidUtf8AsciiOnly(bytes, 1) THEN [ok |-> TRUE, text |-> bytes] ELSE [ok |-> FALSE]

\* CStr::to_str: Ok(text) when the bytes are UTF-8, Err(Utf8Error) otherwise.
to_str(bytes) ==
    IF ValidUtf8From(bytes, 1) THEN [ok |-> TRUE, text |-> bytes] ELSE [ok |-> FALSE]

\* 1-based position of the first NUL of mem at or after i; 0 when there is none.
RECURSIVE FirstNul(_, _)
FirstNul(mem, i) ==
    IF i > Len(mem) THEN 0
    ELSE IF mem[i] = NUL THEN i
    ELSE FirstNul(mem, i + 1)

\* CStr::from_ptr: strlen from the pointer on.  mem is the mapped memory that
\* starts at the pointer; the scan reads one byte after the other until a NUL,
\* and faults when it runs off the mapped bytes.
CStrFromPtr(mem) ==
    LET k == FirstNul(mem, 1)
    IN  IF k = 0 THEN [fault |-> TRUE, nread |-> Len(mem) + 1]
        ELSE [fault |-> FALSE, nread |-> k, bytes |-> SubSeq(mem, 1, k - 1)]

Fault(nread) == [tag |-> "fault", text |-> << >>, logs |-> 0, nread |-> nread]
Text(t, logs, nread) == [tag |-> "text", text |-> t, logs |-> logs, nread |-> nread]

\* .unwrap_or_else(|_| { warn!("invalid UTF8 data"); Default::default() })
unwrap_or_else_warn(r, nread) ==
    IF r.ok THEN Text(r.text, 0, nread) ELSE Text(<< >>, 1, nread)

\* impl AsStr for *const raw::c_char
as_str_ptr(mem) ==
    LET c == CStrFromPtr(mem)
    IN  IF c.fault THEN Fault(c.nread)
        ELSE unwrap_or_else_warn(to_str(c.bytes), c.nread)

\* Faulty variant: the fallback of the array variant without the warn! call.
as_str_slice_silent(mem) ==
    LET c == CStrFromPtr(mem)
    IN  IF c.fault THEN Fault(c.nread)
        ELSE IF to_str(c.bytes).ok THEN Text(c.bytes, 0, c.nread)
        ELSE Text(<< >>, 0, c.nread)

\* impl AsStr for [raw::c_char]: self.as_ptr() drops the length of the slice.
as_str_slice(mem) ==
    LET c == CStrFromPtr(mem)
    IN  IF c.fault THEN Fault(c.nread)
        ELSE unwrap_or_else_warn(to_str(c.bytes), c.nread)

\* CString::new(t): Err(NulError) when t holds a NUL, else t plus the NUL.
CStringNew(t) ==
    IF NUL \in Range(t) THEN [ok |-> FALSE]
    ELSE [ok |-> TRUE, buf |-> Append(t, NUL)]

\* Result::unwrap: the value, or a panic.
unwrap(r) ==
    IF r.ok THEN [tag |-> "cstring", buf |-> r.buf] ELSE [tag |-> "panic", buf |-> << >>]

\* impl ToCString for String
into_cstring_string(t) == unwrap(CStringNew(t))

\* Faulty variant: the text cut at its first NUL instead of being refused.
into_cstring_str_truncating(t) ==
    LET k == FirstNul(t, 1)
    IN  [tag |-> "cstring",
         buf |-> Append(IF k = 0 THEN t ELSE SubSeq(t, 1, k - 1), NUL)]

\* impl ToCString for &str
into_cstring_str(t) == unwrap(CStringNew(t))

\* A String / &str is UTF-8 by construction; it may hold NUL bytes.
Texts == {t \in SeqsUpTo(Bytes, MaxLen) : ValidUtf8From(t, 1)}

\* What a driver hands out behind a non-null char pointer: a C string.
CStrings == {Append(s, NUL) : s \in SeqsUpTo(Bytes \ {NUL}, MaxLen)}

\* Fixed-size c_char arrays (e.g. a name field of a driver structure).
Arrays == SeqsUpTo(Bytes, MaxArr) \ {<< >>}

\* The mapped bytes that happen to follow an array, or sit at address 0.
Tails == SeqsUpTo(Bytes, MaxTail)

\* A segmentation fault ends the process.
Alive == tlast.out.tag # "fault"

\* The bookkeeping of one as_str call on memory mem, n bytes of which belong
\* to the buffer (0 for a null pointer).
Decoded(op, ptr, mem, n, out) ==
    /\ tlast' = [op |-> op, ptr |-> ptr, buf |-> Take(mem, n), n |-> n,
                 scanned |-> Take(mem, out.nread), out |-> out]
    /\ invalidCalls' = invalidCalls +
            (IF out.tag = "text" /\ ~ValidUtf8From(Take(mem, out.nread - 1), 1)
             THEN 1 ELSE 0)
    /\ logCalls' = logCalls + out.logs
    /\ UNCHANGED << cstr, rvars, hdr, avars >>

\* as_str on a char pointer returned by the driver: null, or a C string.
AsStrPtr ==
    /\ Alive
    /\ logCalls < MaxCalls
    /\ \E p \in {NULL, 4096} :
        \E mem \in (IF p = NULL THEN Tails ELSE CStrings) :
            Decoded("as_str_ptr", p, mem, IF p = NULL THEN 0 ELSE Len(mem),
                    as_str_ptr(mem))

\* as_str on a fixed-size array; the bytes after it are whatever is there.
AsStrSlice ==
    /\ Alive
    /\ logCalls < MaxCalls
    /\ \E a \in Arrays, tail \in Tails :
        /\ NUL \in Range(a) => tail = << >>
        /\ Decoded("as_str_slice", 4096, a \o tail, Len(a), as_str_slice(a \o tail))

\* as_str on the buffer of the CString the caller holds (CString::as_ptr).
AsStrCString ==
    /\ Alive
    /\ logCalls < MaxCalls
    /\ cstr.op = "held"
    /\ Decoded("as_str_cstring", 8192, cstr.buf, Len(cstr.buf), as_str_ptr(cstr.buf))

\* The bookkeeping of one into_cstring call.
Encoded(op, t, out) ==
    /\ tlast' = [op |-> op, text |-> t, out |-> out]
    /\ cstr' = IF out.tag = "cstring" THEN [op |-> "held", src |-> t, buf |-> out.buf]
               ELSE cstr
    /\ UNCHANGED << invalidCalls, logCalls, rvars, hdr, avars >>

IntoCStringString ==
    /\ Alive
    /\ \E t \in Texts : Encoded("into_cstring_string", t, into_cstring_string(t))

IntoCStringStr ==
    /\ Alive
    /\ \E t \in Texts : Encoded("into_cstring_str", t, into_cstring_str(t))

\* Decoding what the driver hands out.
DecodeNext == AsStrSlice \/ AsStrPtr

\* Encoding text for the driver, and reading the encoded buffer back.
EncodeNext == IntoCStringString \/ IntoCStringStr \/ AsStrCString

(***************************************************************************)
(* ABI struct factories (ffi.rs 150-328).                                  *)
(* A structure is the sequence of its fields in the order the literal      *)
(* writes them; a field is its name, its kind and its value.               *)
(***************************************************************************)
F(name, kind, val) == [name |-> name, kind |-> kind, val |-> val]

\* [x; n]
Repeat(x, n) == [i \in 1..n |-> x]

\* The value of the field called name (the structure has exactly one).
FieldOf(st, name) == st[CHOOSE i \in 1..Len(st) : st[i].name = name]
FieldPos(st, name) == CHOOSE i \in 1..Len(st) : st[i].name = name
HasField(st, name) == \E i \in 1..Len(st) : st[i].name = name

\* RteEthStats::default(); cntrs is RTE_ETHDEV_QUEUE_STAT_CNTRS.
RteEthStats_default(cntrs) ==
    << F("ipackets", "num", 0),
       F("opackets", "num", 0),
       F("ibytes", "num", 0),
       F("obytes", "num", 0),
       F("imissed", "num", 0),
       F("ierrors", "num", 0),
       F("oerrors", "num", 0),
       F("rx_nombuf", "num", 0),
       F("q_ipackets", "arr", Repeat(0, cntrs)),
       F("q_opackets", "arr", Repeat(0, cntrs)),
       F("q_ibytes", "arr", Repeat(0, cntrs)),
       F("q_obytes", "arr", Repeat(0, cntrs)),
       F("q_errors", "arr", Repeat(0, cntrs)) >>

\* RteEtherAddr::default(): addr_bytes: [0; 6]
RteEtherAddr_default ==
    << F("addr_bytes", "arr", Repeat(0, 6)) >>

\* RteEthDescLim::default()
RteEthDescLim_default ==
    << F("nb_max", "num", 0),
       F("nb_min", "num", 0),
       F("nb_align", "num", 0),
       F("nb_seg_max", "num", 0),
       F("nb_mtu_seg_max", "num", 0) >>

\* RteEthDevPortConf::default()
RteEthDevPortConf_default ==
    << F("burst_size", "num", 0),
       F("ring_size", "num", 0),
       F("nb_queues", "num", 0) >>

\* __BindgenBitfieldUnit's Default: the storage bytes of the group, all zero
\* (one byte holds the three bit-fields of rte_eth_rxseg_capa).
BitfieldUnit_default == Repeat(0, 1)

\* RteEthRxsegCapa::default()
RteEthRxsegCapa_default ==
    << F("_bitfield_align_1", "arr", << >>),
       F("_bitfield_1", "bits", BitfieldUnit_default),
       F("max_nseg", "num", 0),
       F("reserved", "num", 0) >>

\* RteEthThresh::default()
RteEthThresh_default ==
    << F("pthresh", "num", 0),
       F("hthresh", "num", 0),
       F("wthresh", "num", 0) >>

\* RteEthRxConf::default()
RteEthRxConf_default ==
    << F("rx_thresh", "struct", RteEthThresh_default),
       F("rx_free_thresh", "num", 0),
       F("rx_drop_en", "num", 0),
       F("rx_deferred_start", "num", 0),
       F("rx_nseg", "num", 0),
       F("share_group", "num", 0),
       F("share_qid", "num", 0),
       F("offloads", "num", 0),
       F("rx_seg", "ptr", NULL),
       F("rx_mempools", "ptr", NULL),
       F("rx_nmempool", "num", 0),
       F("reserved_64s", "arr", Repeat(0, 2)),
       F("reserved_ptrs", "ptrs", Repeat(NULL, 2)) >>

\* Faulty variant: tx_thresh written out inline with the write-back threshold at 1.
RteEthTxConf_inline_thresh ==
    << F("tx_thresh", "struct",
         << F("pthresh", "num", 0), F("hthresh", "num", 0), F("wthresh", "num", 1) >>),
       F("tx_rs_thresh", "num", 0),
       F("tx_free_thresh", "num", 0),
       F("tx_deferred_start", "num", 0),
       F("offloads", "num", 0),
       F("reserved_64s", "arr", Repeat(0, 2)),
       F("reserved_ptrs", "ptrs", Repeat(NULL, 2)) >>

\* RteEthTxConf::default()
RteEthTxConf_default ==
    << F("tx_thresh", "struct", RteEthThresh_default),
       F("tx_rs_thresh", "num", 0),
       F("tx_free_thresh", "num", 0),
       F("tx_deferred_start", "num", 0),
       F("offloads", "num", 0),
       F("reserved_64s", "arr", Repeat(0, 2)),
       F("reserved_ptrs", "ptrs", Repeat(NULL, 2)) >>

\* Faulty variant: domain_id preset to RTE_ETH_DEV_SWITCH_DOMAIN_ID_INVALID (UINT16_MAX).
RteEthSwitchInfo_invalid_domain ==
    << F("name", "ptr", NULL),
       F("domain_id", "num", 65535),
       F("port_id", "num", 0),
       F("rx_domain", "num", 0) >>

\* RteEthSwitchInfo::default()
RteEthSwitchInfo_default ==
    << F("name", "ptr", NULL),
       F("domain_id", "num", 0),
       F("port_id", "num", 0),
       F("rx_domain", "num", 0) >>

\* RteEthErrHandleMode::default(): the enumeration value 0.
RteEthErrHandleMode_default == 0

\* RteEthDevInfo::default()
RteEthDevInfo_default ==
    << F("device", "ptr", NULL),
       F("driver_name", "ptr", NULL),
       F("if_index", "num", 0),
       F("min_mtu", "num", 0),
       F("max_mtu", "num", 0),
       F("dev_flags", "ptr", NULL),
       F("min_rx_bufsize", "num", 0),
       F("max_rx_pktlen", "num", 0),
       F("max_lro_pkt_size", "num", 0),
       F("max_rx_queues", "num", 0),
       F("max_tx_queues", "num", 0),
       F("max_mac_addrs", "num", 0),
       F("max_hash_mac_addrs", "num", 0),
       F("max_vfs", "num", 0),
       F("max_vmdq_pools", "num", 0),
       F("rx_seg_capa", "struct", RteEthRxsegCapa_default),
       F("rx_offload_capa", "num", 0),
       F("tx_offload_capa", "num", 0),
       F("rx_queue_offload_capa", "num", 0),
       F("tx_queue_offload_capa", "num", 0),
       F("reta_size", "num", 0),
       F("hash_key_size", "num", 0),
       F("flow_type_rss_offloads", "num", 0),
       F("default_rxconf", "struct", RteEthRxConf_default),
       F("default_txconf", "struct", RteEthTxConf_default),
       F("vmdq_queue_base", "num", 0),
       F("vmdq_queue_num", "num", 0),
       F("vmdq_pool_base", "num", 0),
       F("rx_desc_lim", "struct", RteEthDescLim_default),
       F("tx_desc_lim", "struct", RteEthDescLim_default),
       F("speed_capa", "num", 0),
       F("nb_rx_queues", "num", 0),
       F("nb_tx_queues", "num", 0),
       F("max_rx_mempools", "num", 0),
       F("default_rxportconf", "struct", RteEthDevPortConf_default),
       F("default_txportconf", "struct", RteEthDevPortConf_default),
       F("dev_capa", "num", 0),
       F("switch_info", "struct", RteEthSwitchInfo_default),
       F("err_handle_mode", "num", RteEthErrHandleMode_default),
       F("reserved_64s", "arr", Repeat(0, 2)),
       F("reserved_ptrs", "ptrs", Repeat(NULL, 2)) >>

\* The length of the array field fld of structure st.
ArrayLen(st, fld) == Len(FieldOf(st, fld).val)

\* The compiler's check of the array expressions against the types the header
\* declares (a mismatch is error E0308 and there is no program): each array
\* a factory writes must have the declared length.  The per-queue arrays are
\* written with the header's own constant; the others with literals.
Compiles(h) ==
    /\ \A f \in {"q_ipackets", "q_opackets", "q_ibytes", "q_obytes", "q_errors"} :
            ArrayLen(RteEthStats_default(h.stat_cntrs), f) = h.stat_cntrs
    /\ ArrayLen(RteEtherAddr_default, "addr_bytes") = h.ether_addr_len
    /\ \A st \in {RteEthDevInfo_default, RteEthRxConf_default, RteEthTxConf_default} :
            /\ ArrayLen(st, "reserved_64s") = h.reserved_len
            /\ ArrayLen(st, "reserved_ptrs") = h.reserved_len

\* The record of one factory call.
Built(op, kind, val) ==
    [op |-> op, kind |-> kind, val |-> val, out |-> [tag |-> "built"]]

RteEthStatsDefault ==
    /\ Compiles(hdr)
    /\ alast' = Built("RteEthStats", "struct", RteEthStats_default(hdr.stat_cntrs))
    /\ aprev' = alast
    /\ UNCHANGED << rvars, tvars, hdr >>

RteEtherAddrDefault ==
    /\ Compiles(hdr)
    /\ alast' = Built("RteEtherAddr", "struct", RteEtherAddr_default)
    /\ aprev' = alast
    /\ UNCHANGED << rvars, tvars, hdr >>

RteEthDevInfoDefault ==
    /\ Compiles(hdr)
    /\ alast' = Built("RteEthDevInfo", "struct", RteEthDevInfo_default)
    /\ aprev' = alast
    /\ UNCHANGED << rvars, tvars, hdr >>

RteEthDescLimDefault ==
    /\ Compiles(hdr)
    /\ alast' = Built("RteEthDescLim", "struct", RteEthDescLim_default)
    /\ aprev' = alast
    /\ UNCHANGED << rvars, tvars, hdr >>

RteEthDevPortConfDefault ==
    /\ Compiles(hdr)
    /\ alast' = Built("RteEthDevPortConf", "struct", RteEthDevPortConf_default)
    /\ aprev' = alast
    /\ UNCHANGED << rvars, tvars, hdr >>

RteEthRxsegCapaDefault ==
    /\ Compiles(hdr)
    /\ alast' = Built("RteEthRxsegCapa", "struct", RteEthRxsegCapa_default)
    /\ aprev' = alast
    /\ UNCHANGED << rvars, tvars, hdr >>

RteEthRxConfDefault ==
    /\ Compiles(hdr)
    /\ alast' = Built("RteEthRxConf", "struct", RteEthRxConf_default)
    /\ aprev' = alast
    /\ UNCHANGED << rvars, tvars, hdr >>

RteEthTxConfDefault ==
    /\ Compiles(hdr)
    /\ alast' = Built("RteEthTxConf", "struct", RteEthTxConf_default)
    /\ aprev' = alast
    /\ UNCHANGED << rvars, tvars, hdr >>

RteEthThreshDefault ==
    /\ Compiles(hdr)
    /\ alast' = Built("RteEthThresh", "struct", RteEthThresh_default)
    /\ aprev' = alast
    /\ UNCHANGED << rvars, tvars, hdr >>

RteEthSwitchInfoDefault ==
    /\ Compiles(hdr)
    /\ alast' = Built("RteEthSwitchInfo", "struct", RteEthSwitchInfo_default)
    /\ aprev' = alast
    /\ UNCHANGED << rvars, tvars, hdr >>

RteEthErrHandleModeDefault ==
    /\ Compiles(hdr)
    /\ alast' = Built("RteEthErrHandleMode", "num", RteEthErrHandleMode_default)
    /\ aprev' = alast
    /\ UNCHANGED << rvars, tvars, hdr >>

AbiNext ==
    \/ RteEthStatsDefault
    \/ RteEtherAddrDefault
    \/ RteEthDevInfoDefault
    \/ RteEthDescLimDefault
    \/ RteEthDevPortConfDefault
    \/ RteEthRxsegCapaDefault
    \/ RteEthRxConfDefault
    \/ RteEthTxConfDefault
    \/ RteEthThreshDefault
    \/ RteEthSwitchInfoDefault
    \/ RteEthErrHandleModeDefault

\* The array lengths a driver header can declare: the number of per-queue
\* counters (RTE_ETHDEV_QUEUE_STAT_CNTRS), the length of an Ethernet address
\* (RTE_ETHER_ADDR_LEN, 6 in the DPDK release) and the length of the reserved
\* arrays (2 in the DPDK release).
Hdrs == [stat_cntrs : 1..MaxCntrs, ether_addr_len : {6, 8}, reserved_len : {2, 4}]

\* The header of the DPDK release the file was written against, with the
\* smallest number of per-queue counters.
Hdr0 == [stat_cntrs |-> 1, ether_addr_len |-> 6, reserved_len |-> 2]

InitCommon ==
    /\ rlast = None
    /\ rprev = None
    /\ convs = 0
    /\ failures = 0
    /\ ctorCalls = 0
    /\ tlast = None
    /\ cstr = None
    /\ invalidCalls = 0
    /\ logCalls = 0
    /\ alast = None
    /\ aprev = None

Init == InitCommon /\ hdr = Hdr0

InitAbi == InitCommon /\ hdr \in Hdrs

SpecResult == Init /\ [][ResultNext]_vars

SpecDecode == Init /\ [][DecodeNext]_vars

SpecEncode == Init /\ [][EncodeNext]_vars

SpecAbi == InitAbi /\ [][AbiNext]_vars

(***************************************************************************)
(* Properties of the Result Bridge, checked under SpecResult.              *)
(***************************************************************************)
PtrOps == {"mut", "const"}

\* The error a failed conversion must carry: f applied to the raw value.
ExpectedErr(r) == IntoAnyhow(CallCtor(r.f, r.raw))

\* u (a u32) is numerically equal to the c_int v.
U32EqualsInt(u, v) == u.hi < HalfWord \div 2 /\ U32Value(u) = v

\* C1: the integer specialization of into_result returns success with an
\* unsigned value numerically equal to v when v >= 0, and failure carrying
\* the error the caller's constructor built from v itself when v < 0; no
\* value of v yields any other outcome.
C1_IntSignDecides ==
    \A r \in {rlast, rprev} :
        r.op = "int" =>
            /\ r.out.tag \in {"Ok", "Err"}
            /\ r.raw >= 0 => r.out.tag = "Ok" /\ U32EqualsInt(r.out.val, r.raw)
            /\ r.raw < 0 => r.out.tag = "Err" /\ r.out.err = ExpectedErr(r)

C1_Witness ==
    /\ rlast.op = "int" /\ rlast.raw = C_INT_MAX /\ rlast.out.tag = "Ok"
    /\ rprev.op = "int" /\ rprev.raw = -1 /\ rprev.out.tag = "Err"

\* C2: both pointer specializations of into_result return success carrying
\* exactly the address p when p is non-null and failure carrying the caller's
\* constructed error when p is null; they agree on the same address, and a
\* null pointer is never a success payload.
C2_PointerNullDecides ==
    /\ \A r \in {rlast, rprev} :
        r.op \in PtrOps =>
            /\ r.raw # NULL => r.out.tag = "Ok" /\ r.out.val = r.raw
            /\ r.raw = NULL => r.out.tag = "Err" /\ r.out.err = ExpectedErr(r)
            /\ r.out.tag = "Ok" => r.out.val # NULL
    /\ (rlast.op \in PtrOps /\ rprev.op \in PtrOps /\ rlast.raw = rprev.raw)
            => rlast.out.tag = rprev.out.tag

C2_Witness ==
    /\ rlast.op = "mut" /\ rlast.raw = 4096 /\ rlast.out.tag = "Ok"
    /\ rprev.op = "const" /\ rprev.raw = 4096 /\ rprev.out.tag = "Ok"
    /\ failures = 1

\* C3: in each of the three specializations the caller's constructor is
\* invoked zero times when the conversion succeeds and exactly once, with
\* the raw failing value, when it fails; so the number of constructor
\* invocations always equals the number of failed conversions.
C3_CtorOnlyOnFailure ==
    /\ \A r \in {rlast, rprev} :
        r.op # "none" =>
            /\ r.out.tag = "Ok" => r.out.ctorArgs = << >>
            /\ r.out.tag = "Err" => r.out.ctorArgs = << r.raw >>
    /\ ctorCalls = failures

C3_Witness ==
    /\ rlast.op = "int" /\ rlast.out.tag = "Err"
    /\ rprev.op = "mut" /\ rprev.out.tag = "Ok"
    /\ ctorCalls = 2

(***************************************************************************)
(* Properties of the Text Bridge.                                          *)
(***************************************************************************)
DecodeOps == {"as_str_ptr", "as_str_slice", "as_str_cstring"}
EncodeOps == {"into_cstring_string", "into_cstring_str"}

\* C4 (checked under SpecDecode): as_str is total and memory-safe: for every
\* pointer (null included) and every fixed-size array of n bytes (one without
\* a NUL included) it returns a defined Text, and it never reads a byte at an
\* index >= n of the array.
C4_DecodeTotalAndInBounds ==
    tlast.op \in DecodeOps =>
        /\ tlast.out.tag = "text"
        /\ tlast.out.nread <= tlast.n

\* C5 (checked under SpecEncode): every text without a NUL byte is encoded by
\* into_cstring, and as_str on the encoded buffer returns text equal to the
\* original without a log call.
C5_RoundTrip ==
    /\ (tlast.op \in EncodeOps /\ NUL \notin Range(tlast.text)) =>
            /\ tlast.out.tag = "cstring"
            /\ cstr.op = "held" /\ cstr.src = tlast.text /\ cstr.buf = tlast.out.buf
    /\ tlast.op = "as_str_cstring" =>
            /\ tlast.out.tag = "text"
            /\ tlast.out.text = cstr.src
            /\ tlast.out.logs = 0
            /\ logCalls = 0

C5_Witness ==
    /\ tlast.op = "as_str_cstring"
    /\ cstr.src = << 65, 195, 169 >>
    /\ tlast.out.text = << 65, 195, 169 >>

\* C6 (checked under SpecDecode): when the bytes before the first NUL are not
\* valid UTF-8, as_str returns the empty text (never a valid prefix) with
\* exactly one log call and no abort; when they are valid it returns them
\* with no log call; the number of log calls equals the number of calls made
\* on invalid buffers.
C6_InvalidGivesEmptyAndOneLog ==
    /\ (tlast.op \in DecodeOps /\ NUL \in Range(tlast.buf)) => tlast.out.tag = "text"
    /\ (tlast.op \in DecodeOps /\ tlast.out.tag = "text") =>
            LET bytes == Take(tlast.scanned, tlast.out.nread - 1)
                valid == ValidUtf8From(bytes, 1)
            IN  /\ tlast.scanned[tlast.out.nread] = NUL
                /\ ~valid => tlast.out.text = << >> /\ tlast.out.logs = 1
                /\ valid => tlast.out.text = bytes /\ tlast.out.logs = 0
    /\ logCalls = invalidCalls

C6_Witness ==
    /\ tlast.op = "as_str_ptr"
    /\ tlast.buf = << 65, 169, NUL >>
    /\ tlast.out.text = << >>
    /\ logCalls = 2

\* C7 (checked under SpecEncode): into_cstring, for String and for &str,
\* fails on every text that holds a NUL byte, whatever its position: no
\* buffer is returned, truncated or otherwise.
C7_EmbeddedNulFails ==
    /\ (tlast.op \in EncodeOps /\ NUL \in Range(tlast.text)) =>
            tlast.out.tag = "panic" /\ tlast.out.buf = << >>
    /\ cstr.op = "held" =>
            /\ NUL \notin Range(cstr.src)
            /\ cstr.buf = cstr.src \o << NUL >>

C7_Witness ==
    /\ tlast.op = "into_cstring_str"
    /\ tlast.text = << 65, NUL, 65 >>
    /\ tlast.out.tag = "panic"
    /\ cstr.op = "held"

(***************************************************************************)
(* Properties of the ABI struct factories, checked under SpecAbi.          *)
(***************************************************************************)
\* A value of the given kind is all zero: a number is 0, a pointer is null,
\* every element of an array is 0 or null, every storage byte of a bit-field
\* group is 0, and every field of a structure is all zero.
RECURSIVE ZeroVal(_, _)
ZeroVal(kind, val) ==
    CASE kind = "num" -> val = 0
      [] kind = "ptr" -> val = NULL
      [] kind = "arr" -> \A i \in 1..Len(val) : val[i] = 0
      [] kind = "ptrs" -> \A i \in 1..Len(val) : val[i] = NULL
      [] kind = "bits" -> Len(val) > 0 /\ \A i \in 1..Len(val) : val[i] = 0
      [] kind = "struct" ->
            /\ Len(val) > 0
            /\ \A i \in 1..Len(val) : ZeroVal(val[i].kind, val[i].val)
            /\ \A i, j \in 1..Len(val) : val[i].name = val[j].name => i = j
      [] OTHER -> FALSE

\* C8: every factory returns, on every call, a structure whose fields are all
\* assigned zero: numbers 0, pointers null, array elements zero or null,
\* bit-field groups all-zero; repeated calls return identical values.
C8_FactoriesAllZero ==
    /\ \A r \in {alast, aprev} : r.op # "none" => ZeroVal(r.kind, r.val)
    /\ alast.op = aprev.op => alast = aprev

C8_Witness ==
    /\ alast.op = "RteEthDevInfo"
    /\ aprev.op = "RteEthSwitchInfo"

\* The nested fields: the aggregate, the field, and the factory it comes from.
Nested ==
    { << "RteEthDevInfo", "rx_seg_capa", "RteEthRxsegCapa" >>,
      << "RteEthDevInfo", "default_rxconf", "RteEthRxConf" >>,
      << "RteEthDevInfo", "default_txconf", "RteEthTxConf" >>,
      << "RteEthDevInfo", "rx_desc_lim", "RteEthDescLim" >>,
      << "RteEthDevInfo", "tx_desc_lim", "RteEthDescLim" >>,
      << "RteEthDevInfo", "default_rxportconf", "RteEthDevPortConf" >>,
      << "RteEthDevInfo", "default_txportconf", "RteEthDevPortConf" >>,
      << "RteEthDevInfo", "switch_info", "RteEthSwitchInfo" >>,
      << "RteEthDevInfo", "err_handle_mode", "RteEthErrHandleMode" >>,
      << "RteEthRxConf", "rx_thresh", "RteEthThresh" >>,
      << "RteEthTxConf", "tx_thresh", "RteEthThresh" >> }

\* The nested fields of the device info in the order of the declaration.
DevInfoOrder ==
    << "rx_seg_capa", "default_rxconf", "default_txconf", "rx_desc_lim",
       "tx_desc_lim", "default_rxportconf", "default_txportconf", "switch_info",
       "err_handle_mode" >>

\* C9: each nested field of the device info, and the threshold field of the
\* receive and transmit configuration (also inside the device info), is
\* identical to what its own factory returns when called independently; the
\* nested fields come in the order of the declaration.
C9_NestedEqualSubFactories ==
    /\ \A n \in Nested : \A x, y \in {alast, aprev} :
            (x.op = n[1] /\ y.op = n[3]) =>
                HasField(x.val, n[2]) /\ FieldOf(x.val, n[2]).val = y.val
    /\ \A x, y \in {alast, aprev} :
            (x.op = "RteEthDevInfo" /\ y.op = "RteEthThresh") =>
                /\ FieldOf(FieldOf(x.val, "default_rxconf").val, "rx_thresh").val = y.val
                /\ FieldOf(FieldOf(x.val, "default_txconf").val, "tx_thresh").val = y.val
    /\ alast.op = "RteEthDevInfo" =>
            \A i \in 1..(Len(DevInfoOrder) - 1) :
                FieldPos(alast.val, DevInfoOrder[i]) < FieldPos(alast.val, DevInfoOrder[i + 1])

C9_Witness ==
    /\ alast.op = "RteEthDevInfo"
    /\ aprev.op = "RteEthThresh"

\* The arrays a factory result holds whose length the driver header declares:
\* the field, and the declared length under header h.
DeclaredArrays(op, h) ==
    CASE op = "RteEthStats" ->
            { << f, h.stat_cntrs >> :
                f \in {"q_ipackets", "q_opackets", "q_ibytes", "q_obytes", "q_errors"} }
      [] op = "RteEtherAddr" -> { << "addr_bytes", h.ether_addr_len >> }
      [] op \in {"RteEthDevInfo", "RteEthRxConf", "RteEthTxConf"} ->
            { << "reserved_64s", h.reserved_len >>, << "reserved_ptrs", h.reserved_len >> }
      [] OTHER -> {}

\* C10: every array of driver-defined length built by a factory takes its
\* length from the driver-side constant, not from a literal: whatever value
\* the driver header gives the constant, the factories exist and the array
\* they build has exactly that many elements, all zero.
C10_ArrayLengthsFollowHeader ==
    /\ Compiles(hdr)
    /\ alast.op # "none" =>
            \A d \in DeclaredArrays(alast.op, hdr) :
                LET fld == FieldOf(alast.val, d[1])
                IN  Len(fld.val) = d[2] /\ ZeroVal(fld.kind, fld.val)

====
